---- MODULE Spec2Model ----
(***************************************************************************)
(* A model of smartmoneyconcepts/smc.py: the five detectors of class smc   *)
(* (fvg, swing_highs_lows, bos_choch, ob, liquidity), each as a state      *)
(* machine over one call.  Arrays are functions over the 0-based row       *)
(* indices 0..N-1 of the candle series, as in the source.  Prices and      *)
(* volumes are small integers, on which float32 and float64 arithmetic is  *)
(* exact.                                                                  *)
(***************************************************************************)
EXTENDS Integers, Sequences, FiniteSets, TLC

\* np.nan: a value no price, index or label equals.
NaN == -99

\* Bounds of the checked instances.
SwingMaxPrice == 2
SwingMaxN == 5
MaxSwingLength == 2
MaxPrice == 3
FvgMaxN == 5
BosN == 6
LiqN == 6
ObN == 6
ObMaxPrice == 4
BosMaxPrice == 4
ResolveMaxPrice == 3

VARIABLES
    pc,                 \* position in the detector being run
    ohlc,               \* the candle series: row index -> candle
    i,                  \* index of the for loop in progress
    swing_length,       \* swing_highs_lows: parameter
    swing_highs_lows,   \* the swing table [HighLow, Level]: built by
                        \* swing_highs_lows, the caller's object in the others
    continue_,          \* swing_highs_lows: flag of the while loop
    passes,             \* swing_highs_lows: passes of the while loop run so far
    fvg,                \* fvg: output array
    top, bottom, mitigated_index,        \* fvg and ob: output arrays
    close_break,        \* bos_choch: parameter
    level_order, highs_lows_order, last_positions,   \* bos_choch: lists
    bos, choch, level, broken,           \* bos_choch: arrays
    close_mitigation,   \* ob: parameter
    crossed, ob, obVolume, lowVolume, highVolume, percentage, breaker, \* ob: arrays
    bull_end,           \* ob: the arrays as the bullish pass left them
    range_percent,      \* liquidity: parameter, in hundredths
    pip_range,          \* liquidity: pip_range, times 100
    liquidity, liquidity_level, liquidity_end, liquidity_swept, \* liquidity: arrays
    table_in,           \* liquidity: the caller's table as it was at the call
    members             \* liquidity: start index -> swing points averaged into the pool

swingVars == <<swing_length, continue_, passes>>
fvgVars == <<fvg>>
zoneVars == <<top, bottom, mitigated_index>>
bosVars == <<close_break, level_order, highs_lows_order, last_positions,
             bos, choch, level, broken>>
obVars == <<close_mitigation, crossed, ob, obVolume, lowVolume, highVolume,
            percentage, breaker, bull_end>>
liqVars == <<range_percent, pip_range, liquidity, liquidity_level, liquidity_end,
             liquidity_swept, table_in, members>>

vars == <<pc, ohlc, i, swing_highs_lows, swingVars, fvgVars, zoneVars,
          bosVars, obVars, liqVars>>

\* Value of a variable the running detector does not have.
Unused == <<>>

-----------------------------------------------------------------------------
(* Helpers: numpy / pandas primitives *)

N == Cardinality(DOMAIN ohlc)
Rows == 0 .. (N - 1)

Max(S) == CHOOSE x \in S : \A y \in S : y <= x
Min(S) == CHOOSE x \in S : \A y \in S : x <= y

IsNaN(x) == x = NaN

\* Comparisons of numpy values: any comparison with nan is False.
Eq(a, b) == ~IsNaN(a) /\ ~IsNaN(b) /\ a = b
Lt(a, b) == ~IsNaN(a) /\ ~IsNaN(b) /\ a < b
Gt(a, b) == ~IsNaN(a) /\ ~IsNaN(b) /\ a > b

\* Series.shift(k)[r]: the value k rows earlier, nan where there is none.
Shift(field, k, r) ==
    IF r - k \in Rows THEN ohlc[r - k][field] ELSE NaN

\* np.where(cond)[0]: the indices of S in ascending order, as a 0-based array.
Ascending(S) ==
    [k \in 0 .. (Cardinality(S) - 1) |->
        CHOOSE x \in S : Cardinality({y \in S : y < x}) = k]

\* A Python index: negative indices count from the end of the series.
PyIdx(k) == IF k < 0 THEN N + k ELSE k

Zeros == [r \in Rows |-> 0]
AllFalse == [r \in Rows |-> FALSE]

-----------------------------------------------------------------------------
(* swing_highs_lows *)

\* ohlc[field].shift(-(window // 2)).rolling(window) at row r: the rows of the
\* original series the window covers, or {} when the window is incomplete
\* (min_periods = window) or holds a nan of the shift.
RollingRows(r, window) ==
    LET shifted == { k + window \div 2 : k \in (r - window + 1) .. r }
    IN  IF r - window + 1 >= 0 /\ shifted \subseteq Rows /\ window > 0
        THEN shifted ELSE {}

RollingMax(r, window) ==
    IF RollingRows(r, window) = {} THEN NaN
    ELSE Max({ ohlc[k].high : k \in RollingRows(r, window) })

RollingMin(r, window) ==
    IF RollingRows(r, window) = {} THEN NaN
    ELSE Min({ ohlc[k].low : k \in RollingRows(r, window) })

\* The np.where of lines 144-160, with swing_length already doubled.
WindowTest(window) ==
    [r \in Rows |->
        IF Eq(ohlc[r].high, RollingMax(r, window)) THEN 1
        ELSE IF Eq(ohlc[r].low, RollingMin(r, window)) THEN -1
        ELSE NaN]

\* positions = np.where(~np.isnan(swing_highs_lows))[0]
Positions(arr) == Ascending({ r \in Rows : ~IsNaN(arr[r]) })

\* RemoveLow with the comparison turned round: the lower of the two lows is
\* dropped.
RemoveLowLower(positions, k) ==
    IF ohlc[positions[k]].low < ohlc[positions[k + 1]].low
    THEN positions[k] ELSE positions[k + 1]

\* Which of an adjacent pair of lows is dropped (line 180).
RemoveLow(positions, k) ==
    IF ohlc[positions[k]].low > ohlc[positions[k + 1]].low
    THEN positions[k] ELSE positions[k + 1]

\* RemoveHigh with the comparison turned round: the higher of the two highs is
\* dropped.
RemoveHighHigher(positions, k) ==
    IF ohlc[positions[k]].high > ohlc[positions[k + 1]].high
    THEN positions[k] ELSE positions[k + 1]

\* Which of an adjacent pair of highs is dropped (lines 184-186).
RemoveHigh(positions, k) ==
    IF ohlc[positions[k]].high < ohlc[positions[k + 1]].high
    THEN positions[k] ELSE positions[k + 1]

\* The body of the for loop of one pass, from pair k on: positions is the
\* array computed when the pass began, arr the array as removed from so far.
\* (The result of each step is bound through a singleton set, so that it is
\* computed once.)
RECURSIVE ScanPairs(_, _, _, _)
ScanPairs(arr, positions, k, cont) ==
    IF k >= Cardinality(DOMAIN positions) - 1
    THEN [arr |-> arr, continue_ |-> cont]
    ELSE LET current == arr[positions[k]]
             next == arr[positions[k + 1]]
             remove_index ==
                 IF current = -1 /\ next = -1 THEN {RemoveLow(positions, k)}
                 ELSE IF current = 1 /\ next = 1 THEN {RemoveHigh(positions, k)}
                 ELSE {}
         IN  CHOOSE res \in
                 { ScanPairs(a, positions, k + 1, cont \/ remove_index # {}) :
                     a \in { [r \in Rows |->
                                IF r \in remove_index THEN NaN ELSE arr[r]] } } :
                 TRUE

\* One pass of the while loop (lines 164-188).
ResolvePass(arr) ==
    CHOOSE res \in { ScanPairs(arr, p, 0, FALSE) : p \in {Positions(arr)} } : TRUE

\* Normalize without line 194: the last row is left as it is.
NormalizeNoLast(arr) ==
    LET positions == Positions(arr)
    IN  IF arr[positions[0]] = 1 THEN [arr EXCEPT ![0] = -1] ELSE arr

\* Boundary normalization (lines 190-194); positions is not empty.
Normalize(arr) ==
    LET positions == Positions(arr)
        last == positions[Cardinality(DOMAIN positions) - 1]
        a1 == IF arr[positions[0]] = 1 THEN [arr EXCEPT ![0] = -1] ELSE arr
    IN  IF arr[last] = -1 THEN [a1 EXCEPT ![PyIdx(-1)] = 1] ELSE a1

\* level = np.where(...) of lines 196-200.
LevelOf(arr) ==
    [r \in Rows |->
        IF IsNaN(arr[r]) THEN NaN
        ELSE IF arr[r] = 1 THEN ohlc[r].high ELSE ohlc[r].low]

\* The whole while loop (lines 162-188).
RECURSIVE Resolve(_)
Resolve(arr) ==
    CHOOSE res \in
        { IF p.continue_ THEN Resolve(p.arr) ELSE p.arr : p \in {ResolvePass(arr)} } :
        TRUE

HasCandidates(len) == \E r \in Rows : ~IsNaN(WindowTest(len * 2)[r])

\* The table a whole call returns on a series that has candidates.
SwingTable(len) ==
    CHOOSE t \in
        { [HighLow |-> a, Level |-> LevelOf(a)] :
            a \in { Normalize(b) : b \in { Resolve(w) : w \in {WindowTest(len * 2)} } } } :
        TRUE

(* Inputs *)

\* Candles given by their high and low (open at the low, close at the high).
HLCandles ==
    { [open |-> l, high |-> h, low |-> l, close |-> h, volume |-> 1] :
        <<l, h>> \in { p \in (1 .. SwingMaxPrice) \X (1 .. SwingMaxPrice) :
                        p[1] <= p[2] } }

NoSwingRun == swing_length = 0 /\ continue_ = FALSE /\ passes = 0
NoFvg == fvg = Unused
NoZones == top = Unused /\ bottom = Unused /\ mitigated_index = Unused
NoBos ==
    /\ close_break = FALSE /\ level_order = Unused /\ highs_lows_order = Unused
    /\ last_positions = Unused /\ bos = Unused /\ choch = Unused
    /\ level = Unused /\ broken = Unused
NoOb ==
    /\ close_mitigation = FALSE /\ crossed = Unused /\ ob = Unused
    /\ obVolume = Unused /\ lowVolume = Unused /\ highVolume = Unused
    /\ percentage = Unused /\ breaker = Unused /\ bull_end = Unused
NoLiq ==
    /\ range_percent = 0 /\ pip_range = 0 /\ liquidity = Unused /\ liquidity_level = Unused
    /\ liquidity_end = Unused /\ liquidity_swept = Unused
    /\ table_in = Unused /\ members = Unused

SwingInit ==
    /\ pc = "swing_window"
    /\ \E n \in 1 .. SwingMaxN : ohlc \in [0 .. (n - 1) -> HLCandles]
    /\ swing_length \in 1 .. MaxSwingLength
    /\ swing_highs_lows = [HighLow |-> Unused, Level |-> Unused]
    /\ continue_ = TRUE
    /\ passes = 0
    /\ i = 0
    /\ NoFvg /\ NoZones /\ NoBos /\ NoOb /\ NoLiq

\* Lines 142-162: the window test.
SwingWindowTest ==
    /\ pc = "swing_window"
    /\ swing_highs_lows' =
           [swing_highs_lows EXCEPT !.HighLow = WindowTest(swing_length * 2)]
    /\ continue_' = TRUE
    /\ pc' = "swing_resolve"
    /\ UNCHANGED <<ohlc, i, swing_length, passes, fvgVars, zoneVars, bosVars, obVars, liqVars>>

\* Lines 163-188: one pass of the while loop.
SwingResolvePass ==
    /\ pc = "swing_resolve"
    /\ continue_
    /\ LET p == ResolvePass(swing_highs_lows.HighLow)
       IN  /\ swing_highs_lows' = [swing_highs_lows EXCEPT !.HighLow = p.arr]
           /\ continue_' = p.continue_
    /\ passes' = passes + 1
    /\ UNCHANGED <<pc, ohlc, i, swing_length, fvgVars, zoneVars, bosVars, obVars, liqVars>>

\* Lines 190-208: positions[0] raises IndexError when nothing is marked.
SwingNormalize ==
    /\ pc = "swing_resolve"
    /\ ~continue_
    /\ IF Cardinality(DOMAIN Positions(swing_highs_lows.HighLow)) = 0
       THEN /\ pc' = "raised"
            /\ UNCHANGED swing_highs_lows
       ELSE /\ pc' = "swing_done"
            /\ LET arr == Normalize(swing_highs_lows.HighLow)
               IN  swing_highs_lows' = [HighLow |-> arr, Level |-> LevelOf(arr)]
    /\ UNCHANGED <<ohlc, i, swingVars, fvgVars, zoneVars, bosVars, obVars, liqVars>>

SwingNext == SwingWindowTest \/ SwingResolvePass \/ SwingNormalize

SwingSpec == SwingInit /\ [][SwingNext]_vars

\* Candles over three price levels: between two candidates of one kind with
\* different extremes there can then lie a candle that is no candidate.
ResolveCandles ==
    { [open |-> l, high |-> h, low |-> l, close |-> h, volume |-> 1] :
        <<l, h>> \in { p \in (1 .. ResolveMaxPrice) \X (1 .. ResolveMaxPrice) :
                        p[1] <= p[2] } }

SwingFairInit ==
    /\ pc = "swing_window"
    /\ \E n \in 1 .. SwingMaxN : ohlc \in [0 .. (n - 1) -> ResolveCandles]
    /\ swing_length \in 1 .. MaxSwingLength
    /\ swing_highs_lows = [HighLow |-> Unused, Level |-> Unused]
    /\ continue_ = TRUE
    /\ passes = 0
    /\ i = 0
    /\ NoFvg /\ NoZones /\ NoBos /\ NoOb /\ NoLiq

\* The call runs to its end: the statements of the function execute one after
\* the other, so a step that can be taken is taken.
SwingFairSpec == SwingFairInit /\ [][SwingNext]_vars /\ WF_vars(SwingNext)

(* Claims about swing_highs_lows *)

\* The swing points of a table, in index order.
Emitted == Positions(swing_highs_lows.HighLow)
NumEmitted == Cardinality(DOMAIN Emitted)

\* C1: when swing_highs_lows has marked at least one candidate and returned,
\* no two swing points adjacent in index order have the same kind, the first
\* swing point is a low and the last one is a high.
C1_AlternatingLowFirstHighLast ==
    pc = "swing_done" =>
        /\ \A k \in 0 .. (NumEmitted - 2) :
               swing_highs_lows.HighLow[Emitted[k]]
                   # swing_highs_lows.HighLow[Emitted[k + 1]]
        /\ swing_highs_lows.HighLow[Emitted[0]] = -1
        /\ swing_highs_lows.HighLow[Emitted[NumEmitted - 1]] = 1

\* A finished call whose loop removed candidates and whose normalization
\* forced both ends.
C1_Witness ==
    /\ pc = "swing_done"
    /\ passes > 1
    /\ IsNaN(WindowTest(swing_length * 2)[0])
    /\ swing_highs_lows.HighLow[0] = -1
    /\ IsNaN(WindowTest(swing_length * 2)[N - 1])
    /\ swing_highs_lows.HighLow[N - 1] = 1

\* C7: when the window test marks no candle, swing_highs_lows does not
\* raise: it returns a table of length N with HighLow and Level absent on
\* every row.
C7_NoCandidateReturnsAllAbsent ==
    (pc \in {"swing_done", "raised"} /\ ~HasCandidates(swing_length)) =>
        /\ pc = "swing_done"
        /\ DOMAIN swing_highs_lows.HighLow = Rows
        /\ \A r \in Rows : /\ IsNaN(swing_highs_lows.HighLow[r])
                           /\ IsNaN(swing_highs_lows.Level[r])

-----------------------------------------------------------------------------
(* fvg *)

Bullish(r) == ohlc[r].close > ohlc[r].open
Bearish(r) == ohlc[r].close < ohlc[r].open

\* The np.where of lines 69-80.
FvgAt(r) ==
    IF \/ Lt(Shift("high", 1, r), Shift("low", -1, r)) /\ Bullish(r)
       \/ Gt(Shift("low", 1, r), Shift("high", -1, r)) /\ Bearish(r)
    THEN IF Bullish(r) THEN 1 ELSE -1
    ELSE NaN

\* Lines 82-90.
TopAt(r) ==
    IF ~IsNaN(FvgAt(r))
    THEN IF Bullish(r) THEN Shift("low", -1, r) ELSE Shift("low", 1, r)
    ELSE NaN

\* Lines 92-100.
BottomAt(r) ==
    IF ~IsNaN(FvgAt(r))
    THEN IF Bullish(r) THEN Shift("high", 1, r) ELSE Shift("high", -1, r)
    ELSE NaN

\* The rows at which the mask of lines 104-108 is True, for the gap at row g.
MitigationMask(g) ==
    { j \in Rows :
        /\ j >= g + 2
        /\ IF fvg[g] = 1 THEN ohlc[j].low <= top[g]
           ELSE IF fvg[g] = -1 THEN ohlc[j].high >= bottom[g]
           ELSE FALSE }

\* The gaps, in the order the loop of line 103 visits them.
Gaps == Ascending({ r \in Rows : ~IsNaN(fvg[r]) })

\* Candles by high, low and direction: open and close at the two ends.
DirectedCandles ==
    { [open |-> o, high |-> h, low |-> l, close |-> (l + h) - o, volume |-> 1] :
        <<l, h, o>> \in { t \in (1 .. MaxPrice) \X (1 .. MaxPrice) \X (1 .. MaxPrice) :
                            t[1] <= t[2] /\ t[3] \in {t[1], t[2]} } }

FvgInit ==
    /\ pc = "fvg_detect"
    /\ \E n \in 1 .. FvgMaxN : ohlc \in [0 .. (n - 1) -> DirectedCandles]
    /\ i = 0
    /\ swing_highs_lows = Unused
    /\ NoSwingRun /\ NoFvg /\ NoZones /\ NoBos /\ NoOb /\ NoLiq

\* Lines 69-102: the three np.where columns and the zeroed mitigated_index.
FvgDetect ==
    /\ pc = "fvg_detect"
    /\ fvg' = [r \in Rows |-> FvgAt(r)]
    /\ top' = [r \in Rows |-> TopAt(r)]
    /\ bottom' = [r \in Rows |-> BottomAt(r)]
    /\ mitigated_index' = Zeros
    /\ i' = 0
    /\ pc' = "fvg_mitigate"
    /\ UNCHANGED <<ohlc, swing_highs_lows, swingVars, bosVars, obVars, liqVars>>

\* Lines 103-111: one iteration of the loop over the gaps.
FvgMitigate ==
    /\ pc = "fvg_mitigate"
    /\ i < Cardinality(DOMAIN Gaps)
    /\ LET g == Gaps[i]
           mask == MitigationMask(g)
       IN  mitigated_index' =
               IF mask # {} THEN [mitigated_index EXCEPT ![g] = Min(mask)]
               ELSE mitigated_index
    /\ i' = i + 1
    /\ UNCHANGED <<pc, ohlc, swing_highs_lows, fvg, top, bottom,
                   swingVars, bosVars, obVars, liqVars>>

\* Lines 113-123.
FvgReturn ==
    /\ pc = "fvg_mitigate"
    /\ i >= Cardinality(DOMAIN Gaps)
    /\ mitigated_index' =
           [r \in Rows |-> IF IsNaN(fvg[r]) THEN NaN ELSE mitigated_index[r]]
    /\ pc' = "fvg_done"
    /\ UNCHANGED <<ohlc, i, swing_highs_lows, fvg, top, bottom,
                   swingVars, bosVars, obVars, liqVars>>

FvgNext == FvgDetect \/ FvgMitigate \/ FvgReturn

FvgSpec == FvgInit /\ [][FvgNext]_vars

(* Claims about fvg *)

\* The rows from g+2 on that cross into the gap at row g.
Crossings(g) ==
    { j \in Rows :
        /\ j >= g + 2
        /\ \/ fvg[g] = 1 /\ ohlc[j].low <= top[g]
           \/ fvg[g] = -1 /\ ohlc[j].high >= bottom[g] }

\* C3: for every gap fvg emits at row g, MitigatedIndex is the smallest row
\* from g+2 on that crosses into the gap, and is absent when no row does.
C3_MitigatedIndexFirstCrossingElseAbsent ==
    pc = "fvg_done" =>
        \A g \in Rows :
            ~IsNaN(fvg[g]) =>
                IF Crossings(g) # {}
                THEN mitigated_index[g] = Min(Crossings(g))
                ELSE IsNaN(mitigated_index[g])

-----------------------------------------------------------------------------
(* Inputs of the detectors that take a swing table *)

\* A candle of a shape on the base price p: a doji at p, a candle from p to
\* p+1 that opens at one end and closes at the other ("up", "down"), or a
\* hammer from p to p+2 that opens and closes at its high.  The volume of row
\* r is 2^r.
ShapedCandle(p, shape, r) ==
    [open   |-> IF shape = "hammer" THEN p + 2 ELSE IF shape = "down" THEN p + 1 ELSE p,
     high   |-> IF shape = "hammer" THEN p + 2 ELSE IF shape = "doji" THEN p ELSE p + 1,
     low    |-> p,
     close  |-> IF shape = "hammer" THEN p + 2 ELSE IF shape = "up" THEN p + 1 ELSE p,
     volume |-> 2 ^ r]

\* The series of n candles of one shape, the shape drawn from shapes.
ShapedSeries(n, shapes) ==
    { [r \in 0 .. (n - 1) |-> ShapedCandle(f[r], shape, r)] :
        f \in [0 .. (n - 1) -> 1 .. MaxPrice], shape \in shapes }

-----------------------------------------------------------------------------
(* bos_choch *)

\* list[-k]
FromEnd(list, k) == list[Len(list) - k + 1]

\* highs_lows_order[-4:] == [a, b, c, d]
LastFourKinds(order, a, b, c, d) ==
    /\ FromEnd(order, 4) = a /\ FromEnd(order, 3) = b
    /\ FromEnd(order, 2) = c /\ FromEnd(order, 1) = d

\* BullishBos with level_order[-2] and level_order[-3] taken for each other.
BullishBosSwapped(kinds, levels) ==
    /\ LastFourKinds(kinds, -1, 1, -1, 1)
    /\ FromEnd(levels, 4) < FromEnd(levels, 3)
    /\ FromEnd(levels, 3) < FromEnd(levels, 2)
    /\ FromEnd(levels, 2) < FromEnd(levels, 1)

\* The four conditions of lines 245-253, 263-271, 281-289 and 301-309.
BullishBos(kinds, levels) ==
    /\ LastFourKinds(kinds, -1, 1, -1, 1)
    /\ FromEnd(levels, 4) < FromEnd(levels, 2)
    /\ FromEnd(levels, 2) < FromEnd(levels, 3)
    /\ FromEnd(levels, 3) < FromEnd(levels, 1)

BearishBos(kinds, levels) ==
    /\ LastFourKinds(kinds, 1, -1, 1, -1)
    /\ FromEnd(levels, 4) > FromEnd(levels, 2)
    /\ FromEnd(levels, 2) > FromEnd(levels, 3)
    /\ FromEnd(levels, 3) > FromEnd(levels, 1)

BullishChoch(kinds, levels) ==
    /\ LastFourKinds(kinds, -1, 1, -1, 1)
    /\ FromEnd(levels, 1) > FromEnd(levels, 3)
    /\ FromEnd(levels, 3) > FromEnd(levels, 4)
    /\ FromEnd(levels, 4) > FromEnd(levels, 2)

BearishChoch(kinds, levels) ==
    /\ LastFourKinds(kinds, 1, -1, 1, -1)
    /\ FromEnd(levels, 1) < FromEnd(levels, 3)
    /\ FromEnd(levels, 3) < FromEnd(levels, 4)
    /\ FromEnd(levels, 4) < FromEnd(levels, 2)

\* Lines 243-316: the values written at row last_positions[-2].
Classify(kinds, levels) ==
    LET bos1 == IF BullishBos(kinds, levels) THEN 1 ELSE 0
        bos2 == IF BearishBos(kinds, levels) THEN -1 ELSE bos1
        level2 == IF bos2 # 0 THEN FromEnd(levels, 3) ELSE 0
        choch1 == IF BullishChoch(kinds, levels) THEN 1 ELSE 0
        level3 == IF choch1 # 0 THEN FromEnd(levels, 3) ELSE level2
        choch2 == IF BearishChoch(kinds, levels) THEN -1 ELSE choch1
        level4 == IF choch2 # 0 THEN FromEnd(levels, 3) ELSE level3
    IN  [bos |-> bos2, choch |-> choch2, level |-> level4]

\* The rows at which the mask of lines 322-328 is True, for the event at row a.
BreakMask(a) ==
    { j \in Rows :
        /\ j >= a + 2
        /\ IF bos[a] = 1 \/ choch[a] = 1
           THEN ohlc[j][IF close_break THEN "close" ELSE "high"] > level[a]
           ELSE IF bos[a] = -1 \/ choch[a] = -1
           THEN ohlc[j][IF close_break THEN "close" ELSE "low"] < level[a]
           ELSE FALSE }

\* Broken with the last True of the mask in place of the first.
BrokenLastTrue ==
    [a \in Rows |->
        IF (bos[a] # 0 \/ choch[a] # 0) /\ BreakMask(a) # {}
        THEN Max(BreakMask(a)) ELSE 0]

\* Lines 320-331: the array broken.
Broken ==
    [a \in Rows |->
        IF (bos[a] # 0 \/ choch[a] # 0) /\ BreakMask(a) # {}
        THEN Min(BreakMask(a)) ELSE 0]

\* np.where(x != 0, x, np.nan) of lines 342-345.
ZeroToNaN(arr) == [r \in Rows |-> IF arr[r] # 0 THEN arr[r] ELSE NaN]

BosInit ==
    /\ pc = "bos_scan"
    /\ ohlc \in ShapedSeries(BosN, {"doji", "up", "down"})
    /\ swing_highs_lows = SwingTable(1)
    /\ close_break \in BOOLEAN
    /\ level_order = <<>> /\ highs_lows_order = <<>> /\ last_positions = <<>>
    /\ bos = Zeros /\ choch = Zeros /\ level = Zeros /\ broken = Unused
    /\ i = 0
    /\ NoSwingRun /\ NoFvg /\ NoZones /\ NoOb /\ NoLiq

\* Lines 237-318: one iteration of the loop over the rows of the swing table.
BosScanRow ==
    /\ pc = "bos_scan"
    /\ i < N
    /\ IF ~IsNaN(swing_highs_lows.HighLow[i])
       THEN LET levels == Append(level_order, swing_highs_lows.Level[i])
                kinds == Append(highs_lows_order, swing_highs_lows.HighLow[i])
                c == Classify(kinds, levels)
                a == FromEnd(last_positions, 2)
            IN  /\ level_order' = levels
                /\ highs_lows_order' = kinds
                /\ IF Len(levels) >= 4
                   THEN /\ bos' = [bos EXCEPT ![a] = c.bos]
                        /\ choch' = [choch EXCEPT ![a] = c.choch]
                        /\ level' = [level EXCEPT ![a] = c.level]
                   ELSE UNCHANGED <<bos, choch, level>>
                /\ last_positions' = Append(last_positions, i)
       ELSE UNCHANGED <<level_order, highs_lows_order, last_positions,
                        bos, choch, level>>
    /\ i' = i + 1
    /\ UNCHANGED <<pc, ohlc, swing_highs_lows, close_break, broken,
                   swingVars, fvgVars, zoneVars, obVars, liqVars>>

\* Lines 320-331: the forward scan of every classified row.
BosBreakScan ==
    /\ pc = "bos_scan"
    /\ i >= N
    /\ broken' = Broken
    /\ pc' = "bos_remove"
    /\ UNCHANGED <<ohlc, i, swing_highs_lows, close_break, level_order,
                   highs_lows_order, last_positions, bos, choch, level,
                   swingVars, fvgVars, zoneVars, obVars, liqVars>>

\* Lines 333-352: the unbroken rows are zeroed, and zeros become nan.
BosReturn ==
    /\ pc = "bos_remove"
    /\ LET unbroken == { r \in Rows : (bos[r] # 0 \/ choch[r] # 0) /\ broken[r] = 0 }
           clear(arr) == [r \in Rows |-> IF r \in unbroken THEN 0 ELSE arr[r]]
       IN  /\ bos' = ZeroToNaN(clear(bos))
           /\ choch' = ZeroToNaN(clear(choch))
           /\ level' = ZeroToNaN(clear(level))
           /\ broken' = ZeroToNaN(broken)
    /\ pc' = "bos_done"
    /\ UNCHANGED <<ohlc, i, swing_highs_lows, close_break, level_order,
                   highs_lows_order, last_positions,
                   swingVars, fvgVars, zoneVars, obVars, liqVars>>

BosNext == BosScanRow \/ BosBreakScan \/ BosReturn

BosSpec == BosInit /\ [][BosNext]_vars

(* Claims about bos_choch *)

\* The rows from a+2 on whose test field is strictly beyond lvl, for a
\* bullish (dir = 1) or bearish (dir = -1) event anchored at row a.
BreakingRows(a, dir, lvl) ==
    { j \in Rows :
        /\ j >= a + 2
        /\ \/ dir = 1 /\ (IF close_break THEN ohlc[j].close ELSE ohlc[j].high) > lvl
           \/ dir = -1 /\ (IF close_break THEN ohlc[j].close ELSE ohlc[j].low) < lvl }

\* The direction of the event that arrays b and c hold at row a.
Direction(b, c, a) ==
    IF b[a] = 1 \/ c[a] = 1 THEN 1 ELSE IF b[a] = -1 \/ c[a] = -1 THEN -1 ELSE 0

\* C2: in the output of bos_choch every row that carries a BOS or CHOCH value
\* carries a BrokenIndex, the smallest row from anchor+2 on whose test field
\* is strictly beyond the row's Level; and every classified pattern that no
\* such row breaks is absent from the output in all four columns.
C2_BrokenIndexFirstBreakElseDiscarded ==
    [][ (pc = "bos_remove" /\ pc' = "bos_done") =>
            \A a \in Rows :
                /\ (~IsNaN(bos'[a]) \/ ~IsNaN(choch'[a])) =>
                       /\ ~IsNaN(broken'[a])
                       /\ ~IsNaN(level'[a])
                       /\ BreakingRows(a, Direction(bos', choch', a), level'[a]) # {}
                       /\ broken'[a] =
                              Min(BreakingRows(a, Direction(bos', choch', a), level'[a]))
                /\ ( /\ bos[a] # 0 \/ choch[a] # 0
                     /\ BreakingRows(a, Direction(bos, choch, a), level[a]) = {} ) =>
                       /\ IsNaN(bos'[a]) /\ IsNaN(choch'[a])
                       /\ IsNaN(level'[a]) /\ IsNaN(broken'[a]) ]_vars

\* An emitted event whose breaking row is not the first row scanned.
C2_Witness ==
    /\ pc = "bos_done"
    /\ \E a \in Rows :
           /\ ~IsNaN(bos[a]) \/ ~IsNaN(choch[a])
           /\ broken[a] > a + 2

-----------------------------------------------------------------------------
(* liquidity *)

\* pip_range of line 577, times 100: range_percent is held in hundredths.
PipRange100(percent) ==
    (Max({ ohlc[r].high : r \in Rows }) - Min({ ohlc[r].low : r \in Rows })) * percent

\* The row at which the inner loop of the pass for kind breaks, started at
\* row s (lines 599-601 and 624-626), or N when it runs to the end.
SweepStop(kind, s) ==
    LET lvl == swing_highs_lows.Level[s]
        beyond == { c \in Rows :
                      /\ c > s
                      /\ IF kind = 1
                         THEN ohlc[c].high * 100 >= lvl * 100 + pip_range
                         ELSE ohlc[c].low * 100 <= lvl * 100 - pip_range }
    IN  IF beyond = {} THEN N ELSE Min(beyond)

\* The rows the inner loop absorbs before it ends at row stop (lines 595-598
\* and 620-623): the swing points of the kind within the band, up to and
\* including the row of the break.
Absorbed(kind, s, stop) ==
    LET lvl == swing_highs_lows.Level[s]
    IN  { c \in Rows :
            /\ c > s
            /\ c <= stop
            /\ swing_highs_lows.HighLow[c] = kind
            /\ lvl * 100 - pip_range <= swing_highs_lows.Level[c] * 100
            /\ swing_highs_lows.Level[c] * 100 <= lvl * 100 + pip_range }

\* Consume without the write of lines 598 and 623.
ConsumeNothing(table, rows) == table

\* swing_highs_lows.loc[c, "HighLow"] = 0 for the rows absorbed (lines 598, 623).
Consume(table, rows) ==
    [table EXCEPT !.HighLow = [r \in Rows |-> IF r \in rows THEN 0 ELSE @[r]]]

\* sum(temp_liquidity_level) / len(temp_liquidity_level), as a fraction.
Average(s, rows) ==
    LET RECURSIVE Sum(_)
        Sum(S) == IF S = {} THEN 0
                  ELSE LET x == Min(S) IN swing_highs_lows.Level[x] + Sum(S \ {x})
    IN  [num |-> Sum(rows \cup {s}), den |-> Cardinality(rows) + 1]

\* One iteration of the loop of lines 585-607 (kind = 1) or 610-632 (kind = -1).
LiquidityRow(kind) ==
    /\ i < N
    /\ IF swing_highs_lows.HighLow[i] = kind
       THEN \E stop \in {SweepStop(kind, i)} :
            \E absorbed \in {Absorbed(kind, i, stop)} :
                /\ swing_highs_lows' = Consume(swing_highs_lows, absorbed)
                /\ IF absorbed # {}
                   THEN /\ liquidity' = [liquidity EXCEPT ![i] = kind]
                        /\ liquidity_level' =
                               [liquidity_level EXCEPT ![i] = Average(i, absorbed)]
                        /\ liquidity_end' = [liquidity_end EXCEPT ![i] = Max(absorbed)]
                        /\ liquidity_swept' =
                               [liquidity_swept EXCEPT ![i] = IF stop = N THEN 0 ELSE stop]
                        /\ members' = [members EXCEPT ![i] = absorbed \cup {i}]
                   ELSE UNCHANGED <<liquidity, liquidity_level, liquidity_end,
                                    liquidity_swept, members>>
       ELSE UNCHANGED <<swing_highs_lows, liquidity, liquidity_level,
                        liquidity_end, liquidity_swept, members>>
    /\ i' = i + 1
    /\ UNCHANGED <<pc, ohlc, range_percent, pip_range, table_in,
                   swingVars, fvgVars, zoneVars, bosVars, obVars>>

\* The values of range_percent checked, in hundredths: the default 0.01, and 0.5.
RangePercents == {1, 50}

LiqInit ==
    /\ pc = "liq_highs"
    /\ ohlc \in ShapedSeries(LiqN, {"doji", "up"})
    /\ swing_highs_lows = SwingTable(1)
    /\ table_in = swing_highs_lows
    /\ range_percent \in RangePercents
    /\ pip_range = PipRange100(range_percent)
    /\ liquidity = Zeros
    /\ liquidity_level = [r \in Rows |-> [num |-> 0, den |-> 1]]
    /\ liquidity_end = Zeros
    /\ liquidity_swept = Zeros
    /\ members = [r \in Rows |-> {}]
    /\ i = 0
    /\ NoSwingRun /\ NoFvg /\ NoZones /\ NoBos /\ NoOb

\* Lines 585-607: one row of the pass over the highs.
LiqHighRow == pc = "liq_highs" /\ LiquidityRow(1)

\* Line 610: the pass over the lows begins.
LiqStartLows ==
    /\ pc = "liq_highs"
    /\ i >= N
    /\ pc' = "liq_lows"
    /\ i' = 0
    /\ UNCHANGED <<ohlc, swing_highs_lows, swingVars, fvgVars, zoneVars,
                   bosVars, obVars, liqVars>>

\* Lines 610-632: one row of the pass over the lows.
LiqLowRow == pc = "liq_lows" /\ LiquidityRow(-1)

\* Lines 634-642.
LiqReturn ==
    /\ pc = "liq_lows"
    /\ i >= N
    /\ liquidity' = ZeroToNaN(liquidity)
    /\ liquidity_level' =
           [r \in Rows |-> IF liquidity[r] # 0 THEN liquidity_level[r]
                           ELSE [num |-> NaN, den |-> 1]]
    /\ liquidity_end' = [r \in Rows |-> IF liquidity[r] # 0 THEN liquidity_end[r] ELSE NaN]
    /\ liquidity_swept' =
           [r \in Rows |-> IF liquidity[r] # 0 THEN liquidity_swept[r] ELSE NaN]
    /\ pc' = "liq_done"
    /\ UNCHANGED <<ohlc, i, swing_highs_lows, range_percent, pip_range, table_in, members,
                   swingVars, fvgVars, zoneVars, bosVars, obVars>>

LiqNext == LiqHighRow \/ LiqStartLows \/ LiqLowRow \/ LiqReturn

LiqSpec == LiqInit /\ [][LiqNext]_vars

(* Claims about liquidity *)

\* C4: a call to liquidity leaves the caller's swing table unchanged: after
\* the call every row's HighLow and Level are what they were before it.
C4_CallerTableUnchanged ==
    pc = "liq_done" => swing_highs_lows = table_in

\* The rows at which a pool has been emitted.
Pools == { s \in Rows : liquidity[s] = 1 \/ liquidity[s] = -1 }

\* C6: every pool is built from at least 2 swing points of one kind, the
\* starting one and the absorbed ones, and no swing point is a member of two
\* pools: an absorbed swing point never starts a pool and is never absorbed
\* again.
C6_PoolsOfTwoOrMoreDisjoint ==
    /\ \A s \in Pools :
           /\ Cardinality(members[s]) >= 2
           /\ s \in members[s]
           /\ \A m \in members[s] : table_in.HighLow[m] = liquidity[s]
    /\ \A s \in Pools : \A t \in Pools : s # t => members[s] \cap members[t] = {}

\* A finished call with two pools, one of them of three swing points.
C6_Witness ==
    /\ pc = "liq_done"
    /\ Cardinality(Pools) >= 2
    /\ \E s \in Pools : Cardinality(members[s]) >= 3

-----------------------------------------------------------------------------
(* ob *)

\* LastSwing among the swing points not yet crossed only.
LastSwingUncrossed(dir, c) ==
    LET before == { j \in Rows : swing_highs_lows.HighLow[j] = dir /\ j < c
                                  /\ ~crossed[j] }
    IN  IF before = {} THEN {} ELSE {Max(before)}

\* last_top_index (lines 418-421, dir = 1) or last_btm_index (lines 490-493,
\* dir = -1) at close_index c, as a set: empty for None.
LastSwing(dir, c) ==
    LET before == { j \in Rows : swing_highs_lows.HighLow[j] = dir /\ j < c }
    IN  IF before = {} THEN {} ELSE {Max(before)}

\* Whether the formation check of close_index c passes for swing point last
\* (lines 423-424 and 495-496).
Forms(dir, last, c) ==
    /\ IF dir = 1 THEN ohlc[c].close > ohlc[last].high
       ELSE ohlc[c].close < ohlc[last].low
    /\ ~crossed[last]

\* The loop of lines 426-440 from row k on: acc holds obBtm, obTop, obIndex.
RECURSIVE BullishBlock(_, _, _)
BullishBlock(k, c, acc) ==
    IF k > c - 1 THEN acc
    ELSE LET obBtm == IF ohlc[k].low < acc.obBtm THEN ohlc[k].low ELSE acc.obBtm
             hit == obBtm = ohlc[k].low
         IN  CHOOSE res \in
                 { BullishBlock(k + 1, c, a) :
                     a \in { [obBtm |-> obBtm,
                              obTop |-> IF hit THEN ohlc[k].high ELSE acc.obTop,
                              obIndex |-> IF hit THEN k ELSE acc.obIndex] } } : TRUE

\* The loop of lines 498-512 from row k on.
RECURSIVE BearishBlock(_, _, _)
BearishBlock(k, c, acc) ==
    IF k > c - 1 THEN acc
    ELSE LET obTop == IF ohlc[k].high > acc.obTop THEN ohlc[k].high ELSE acc.obTop
             hit == obTop = ohlc[k].high
         IN  CHOOSE res \in
                 { BearishBlock(k + 1, c, a) :
                     a \in { [obTop |-> obTop,
                              obBtm |-> IF hit THEN ohlc[k].low ELSE acc.obBtm,
                              obIndex |-> IF hit THEN k ELSE acc.obIndex] } } : TRUE

\* obBtm, obTop and obIndex of the zone formed at close_index c for swing
\* point last (lines 426-440 and 498-512).
Block(dir, last, c) ==
    IF dir = 1
    THEN BullishBlock(last + 1, c, [obBtm |-> ohlc[c - 1].high,
                                    obTop |-> ohlc[c - 1].low,
                                    obIndex |-> c - 1])
    ELSE BearishBlock(last + 1, c, [obBtm |-> ohlc[c - 1].low,
                                    obTop |-> ohlc[c - 1].high,
                                    obIndex |-> c - 1])

\* Deletes without the price test of lines 398 and 470.
DeletesWhenBreaker(dir, j, c) ==
    /\ ob[j] = dir
    /\ breaker[j]

\* The breaker branch of the invalidation check deletes zone j at close_index
\* c (lines 397-403 and 469-475).
Deletes(dir, j, c) ==
    /\ ob[j] = dir
    /\ breaker[j]
    /\ IF dir = 1 THEN ohlc[c].high > top[j] ELSE ohlc[c].low < bottom[j]

\* The other branch flags zone j at close_index c (lines 405-417 and 477-489).
Mitigates(dir, j, c) ==
    /\ ob[j] = dir
    /\ ~breaker[j]
    /\ IF dir = 1
       THEN \/ ~close_mitigation /\ ohlc[c].low < bottom[j]
            \/ close_mitigation /\ Min({ohlc[c].open, ohlc[c].close}) < bottom[j]
       ELSE \/ ~close_mitigation /\ ohlc[c].high > top[j]
            \/ close_mitigation /\ Max({ohlc[c].open, ohlc[c].close}) > top[j]

\* The arrays after the invalidation check of close_index c (lines 393-417
\* and 465-489).
Invalidated(dir, c) ==
    LET keep(arr) == [j \in Rows |-> IF Deletes(dir, j, c) THEN 0 ELSE arr[j]]
    IN  [ob |-> keep(ob), top |-> keep(top), bottom |-> keep(bottom),
         obVolume |-> keep(obVolume), lowVolume |-> keep(lowVolume),
         highVolume |-> keep(highVolume), percentage |-> keep(percentage),
         mitigated_index |->
             [j \in Rows |->
                 IF Deletes(dir, j, c) THEN 0
                 ELSE IF Mitigates(dir, j, c)
                      THEN (IF dir = 1 THEN c - 1 ELSE c)
                      ELSE mitigated_index[j]],
         breaker |-> [j \in Rows |-> breaker[j] \/ Mitigates(dir, j, c)]]

\* ohlc["volume"].iloc[k]
VolumeAt(k) == ohlc[PyIdx(k)].volume

\* Lines 445-458 and 517-530: the volumes recorded for a zone formed at
\* close_index c.  (On the volumes of the model the quotient is exact enough
\* for the int32 cast to be a floor.)
Volumes(dir, c) ==
    LET recent == VolumeAt(c) + VolumeAt(c - 1)
        third == VolumeAt(c - 2)
        lo == IF dir = 1 THEN third ELSE recent
        hi == IF dir = 1 THEN recent ELSE third
    IN  [obVolume |-> VolumeAt(c) + VolumeAt(c - 1) + VolumeAt(c - 2),
         lowVolume |-> lo,
         highVolume |-> hi,
         percentage |-> (Min({hi, lo}) * 100) \div Max({hi, lo})]

\* One iteration of the loop of lines 388-458 (dir = 1) or 460-530 (dir = -1).
ObRow(dir) ==
    /\ i < N
    /\ \E inv \in {Invalidated(dir, i)} :
       \E last \in {LastSwing(dir, i)} :
           IF last # {} /\ Forms(dir, Max(last), i)
           THEN \E b \in {Block(dir, Max(last), i)} :
                \E v \in {Volumes(dir, i)} :
                    /\ crossed' = [crossed EXCEPT ![Max(last)] = TRUE]
                    /\ ob' = [inv.ob EXCEPT ![b.obIndex] = dir]
                    /\ top' = [inv.top EXCEPT ![b.obIndex] = b.obTop]
                    /\ bottom' = [inv.bottom EXCEPT ![b.obIndex] = b.obBtm]
                    /\ obVolume' = [inv.obVolume EXCEPT ![b.obIndex] = v.obVolume]
                    /\ lowVolume' = [inv.lowVolume EXCEPT ![b.obIndex] = v.lowVolume]
                    /\ highVolume' = [inv.highVolume EXCEPT ![b.obIndex] = v.highVolume]
                    /\ percentage' = [inv.percentage EXCEPT ![b.obIndex] = v.percentage]
                    /\ mitigated_index' = inv.mitigated_index
                    /\ breaker' = inv.breaker
           ELSE /\ crossed' = crossed
                /\ ob' = inv.ob
                /\ top' = inv.top
                /\ bottom' = inv.bottom
                /\ obVolume' = inv.obVolume
                /\ lowVolume' = inv.lowVolume
                /\ highVolume' = inv.highVolume
                /\ percentage' = inv.percentage
                /\ mitigated_index' = inv.mitigated_index
                /\ breaker' = inv.breaker
    /\ i' = i + 1
    /\ UNCHANGED <<pc, ohlc, swing_highs_lows, close_mitigation, bull_end,
                   swingVars, fvgVars, bosVars, liqVars>>

\* The candles a row of the series given to ob is drawn from: the dojis with
\* prices up to ObMaxPrice and the hammers whose high is below ObMaxPrice.
ObCandleKinds ==
    { [p |-> p, shape |-> "doji"] : p \in 1 .. ObMaxPrice }
        \cup { [p |-> p, shape |-> "hammer"] : p \in 1 .. (ObMaxPrice - 3) }

ObSeries(n) ==
    { [r \in 0 .. (n - 1) |-> ShapedCandle(f[r].p, f[r].shape, r)] :
        f \in [0 .. (n - 1) -> ObCandleKinds] }

ObInit ==
    /\ pc = "ob_bullish"
    /\ ohlc \in ObSeries(ObN)
    /\ swing_highs_lows = SwingTable(1)
    /\ close_mitigation \in BOOLEAN
    /\ crossed = AllFalse /\ breaker = AllFalse
    /\ ob = Zeros /\ top = Zeros /\ bottom = Zeros /\ obVolume = Zeros
    /\ lowVolume = Zeros /\ highVolume = Zeros /\ percentage = Zeros
    /\ mitigated_index = Zeros
    /\ bull_end = Unused
    /\ i = 0
    /\ NoSwingRun /\ NoFvg /\ NoBos /\ NoLiq

\* Lines 388-458: one close_index of the bullish pass.
ObBullishRow == pc = "ob_bullish" /\ ObRow(1)

\* Line 460: the bearish pass begins, on the same arrays.
ObStartBearish ==
    /\ pc = "ob_bullish"
    /\ i >= N
    /\ pc' = "ob_bearish"
    /\ i' = 0
    /\ bull_end' = [ob |-> ob, top |-> top, bottom |-> bottom,
                    obVolume |-> obVolume, mitigated_index |-> mitigated_index]
    /\ UNCHANGED <<ohlc, swing_highs_lows, close_mitigation, crossed, ob, obVolume,
                   lowVolume, highVolume, percentage, breaker,
                   swingVars, fvgVars, zoneVars, bosVars, liqVars>>

\* Lines 460-530: one close_index of the bearish pass.
ObBearishRow == pc = "ob_bearish" /\ ObRow(-1)

\* Lines 532-556.
ObReturn ==
    /\ pc = "ob_bearish"
    /\ i >= N
    /\ LET absent(arr) == [r \in Rows |-> IF ob[r] # 0 THEN arr[r] ELSE NaN]
       IN  /\ ob' = absent(ob)
           /\ top' = absent(top)
           /\ bottom' = absent(bottom)
           /\ obVolume' = absent(obVolume)
           /\ mitigated_index' = absent(mitigated_index)
           /\ percentage' = absent(percentage)
    /\ pc' = "ob_done"
    /\ UNCHANGED <<ohlc, i, swing_highs_lows, close_mitigation, crossed,
                   lowVolume, highVolume, breaker, bull_end,
                   swingVars, fvgVars, bosVars, liqVars>>

ObNext == ObBullishRow \/ ObStartBearish \/ ObBearishRow \/ ObReturn

ObSpec == ObInit /\ [][ObNext]_vars

(* Claims about ob *)

\* A step of the scan of either pass.
ObScanStep == pc \in {"ob_bullish", "ob_bearish"} /\ pc' = pc /\ i' = i + 1

\* Zone k has been mitigated: flagged, with the mitigating row recorded.
MitigatedZone(k) == ob[k] # 0 /\ breaker[k] /\ mitigated_index[k] # 0

\* The row under scan crosses back through zone k of the pass's direction.
CrossesBack(k) ==
    \/ pc = "ob_bullish" /\ ob[k] = 1 /\ ohlc[i].high > top[k]
    \/ pc = "ob_bearish" /\ ob[k] = -1 /\ ohlc[i].low < bottom[k]

\* C5: once a zone's mitigated_index has been set, every later step of the
\* scan leaves the zone's top and bottom as they are, unless the step deletes
\* the zone because it was flagged breaker and the row's price crossed back
\* through it.
C5_MitigatedZoneKeepsBoundsUnlessDeleted ==
    [][ObScanStep =>
          \A k \in Rows :
              MitigatedZone(k) =>
                  \/ top'[k] = top[k] /\ bottom'[k] = bottom[k] /\ ob'[k] # 0
                  \/ CrossesBack(k) /\ ob'[k] = 0]_vars

\* A zone has gone through a step of the scan after the one that mitigated it
\* and is still recorded with its bounds.
C5_Witness ==
    \E k \in Rows :
        /\ MitigatedZone(k)
        /\ \/ pc = "ob_bullish" /\ ob[k] = 1 /\ mitigated_index[k] + 3 <= i
           \/ pc = "ob_bearish" /\ ob[k] = -1 /\ mitigated_index[k] + 2 <= i
        /\ top[k] = ohlc[k].high /\ bottom[k] = ohlc[k].low

\* The swing points of kind dir before the row under scan, and those of them
\* not yet crossed.
SwingsBefore(dir) == { j \in Rows : swing_highs_lows.HighLow[j] = dir /\ j < i }
UncrossedBefore(dir) == { j \in SwingsBefore(dir) : ~crossed[j] }

\* The close of the row under scan is beyond the level of swing point j.
ClosesBeyond(dir, j) ==
    IF dir = 1 THEN ohlc[i].close > ohlc[j].high ELSE ohlc[i].close < ohlc[j].low

\* The step forms a zone of kind dir for swing point j: it marks j crossed
\* and records a zone on a row from j up to the row before the one under scan.
FormsZoneFor(dir, j) ==
    /\ crossed' = [crossed EXCEPT ![j] = TRUE]
    /\ \E k \in j .. (i - 1) : ob'[k] = dir

PassDir == IF pc = "ob_bullish" THEN 1 ELSE -1

\* C9 as stated: at each row the most recent swing point of the pass's kind
\* that has not been crossed is the one examined: when the close is beyond
\* its level it is marked crossed and a zone is formed for it.
C9_MostRecentUncrossedSwingIsExamined ==
    [][(/\ ObScanStep
         /\ UncrossedBefore(PassDir) # {}
         /\ ClosesBeyond(PassDir, Max(UncrossedBefore(PassDir))))
          => FormsZoneFor(PassDir, Max(UncrossedBefore(PassDir)))]_vars

\* C9 as the code has it: at each row the most recent swing point of the
\* pass's kind before the row is the one examined, crossed or not.  A zone is
\* formed, and the point marked crossed, exactly when that point is not yet
\* crossed and the close is beyond its level; otherwise no point is marked.
C9_MostRecentSwingIsExamined ==
    [][ObScanStep =>
          IF /\ SwingsBefore(PassDir) # {}
             /\ ~crossed[Max(SwingsBefore(PassDir))]
             /\ ClosesBeyond(PassDir, Max(SwingsBefore(PassDir)))
          THEN FormsZoneFor(PassDir, Max(SwingsBefore(PassDir)))
          ELSE crossed' = crossed]_vars

\* The row under scan closes beyond an earlier swing point that is not yet
\* crossed while the most recent one is crossed already; and a swing point
\* has been crossed by a step of the scan.
C9_Witness ==
    /\ pc \in {"ob_bullish", "ob_bearish"}
    /\ i < N
    /\ SwingsBefore(PassDir) # {}
    /\ crossed[Max(SwingsBefore(PassDir))]
    /\ UncrossedBefore(PassDir) # {}
    /\ ClosesBeyond(PassDir, Max(UncrossedBefore(PassDir)))

\* C10: the passes do not interfere.  Every bullish zone recorded at the end
\* of the bullish pass is in the output with the direction, top, bottom, volume
\* and mitigation row it had then; and a step of the bearish pass records a
\* new bearish zone only on a row that is neither flagged breaker nor carries
\* a mitigation row.
C10_PassesDoNotInterfere ==
    [][pc = "ob_bearish" =>
          /\ pc' = "ob_done" =>
                \A k \in Rows :
                    bull_end.ob[k] = 1 =>
                        /\ ob'[k] = 1
                        /\ top'[k] = bull_end.top[k]
                        /\ bottom'[k] = bull_end.bottom[k]
                        /\ obVolume'[k] = bull_end.obVolume[k]
                        /\ mitigated_index'[k] = bull_end.mitigated_index[k]
          /\ pc' = "ob_bearish" =>
                \A k \in Rows :
                    (ob[k] # -1 /\ ob'[k] = -1) =>
                        ~breaker'[k] /\ mitigated_index'[k] = 0]_vars

\* The swing point for which the step forms a zone: the one it marks crossed.
NewlyCrossed == { j \in Rows : ~crossed[j] /\ crossed'[j] }

\* The sum of the volumes of the rows of S.
RECURSIVE VolumeOfRows(_)
VolumeOfRows(S) ==
    IF S = {} THEN 0
    ELSE LET r == Min(S) IN ohlc[r].volume + VolumeOfRows(S \ {r})

\* C11: for every zone formed at close_index c the recorded OBVolume is the
\* volume of row c plus the volumes of the rows c-1 and c-2 that precede it,
\* and holds the volume of no row after c, also at c = 1.
C11_ObVolumeOfTriggerAndTwoPredecessors ==
    [][ObScanStep =>
          \A j \in NewlyCrossed :
              obVolume'[Block(PassDir, j, i).obIndex]
                  = VolumeOfRows({i - 2, i - 1, i} \cap Rows)]_vars

(* More claims about liquidity *)

\* The rows after s strictly beyond the band of the pool of kind k started at
\* row s: high above level + pip_range, or low below level - pip_range.
StrictlyBeyond(k, s) ==
    { c \in Rows :
        /\ c > s
        /\ IF k = 1
           THEN ohlc[c].high * 100 > table_in.Level[s] * 100 + pip_range
           ELSE ohlc[c].low * 100 < table_in.Level[s] * 100 - pip_range }

\* C12: for every pool in the output, Swept is the first row after the start
\* strictly beyond the band, and is absent when there is no such row.
C12_SweptFirstStrictlyBeyondElseAbsent ==
    pc = "liq_done" =>
        \A s \in Rows :
            ~IsNaN(liquidity[s]) =>
                IF StrictlyBeyond(liquidity[s], s) # {}
                THEN liquidity_swept[s] = Min(StrictlyBeyond(liquidity[s], s))
                ELSE IsNaN(liquidity_swept[s])

(* bos_choch on series of dojis, with a fourth price level *)

\* The series of n dojis with prices up to maxp.
DojiSeries(n, maxp) ==
    { [r \in 0 .. (n - 1) |-> ShapedCandle(f[r], "doji", r)] :
        f \in [0 .. (n - 1) -> 1 .. maxp] }

BosDojiInit ==
    /\ pc = "bos_scan"
    /\ ohlc \in DojiSeries(BosN, BosMaxPrice)
    /\ swing_highs_lows = SwingTable(1)
    /\ close_break = TRUE          \* the default of line 211
    /\ level_order = <<>> /\ highs_lows_order = <<>> /\ last_positions = <<>>
    /\ bos = Zeros /\ choch = Zeros /\ level = Zeros /\ broken = Unused
    /\ i = 0
    /\ NoSwingRun /\ NoFvg /\ NoZones /\ NoOb /\ NoLiq

BosDojiSpec == BosDojiInit /\ [][BosNext]_vars

(* More claims about bos_choch *)

\* The swing points of the table, in index order.
SwingRows == Positions(swing_highs_lows.HighLow)
NumSwings == Cardinality(DOMAIN SwingRows)

\* Kind and level of the k-th swing point of the table.
KindOf(k) == swing_highs_lows.HighLow[SwingRows[k]]
LevelAt(k) == swing_highs_lows.Level[SwingRows[k]]

\* The four consecutive swing points of which the k-th is the second are
\* low,high,low,high (d = 1) or high,low,high,low (d = -1).
WindowKinds(k, d) ==
    /\ KindOf(k - 1) = -d /\ KindOf(k) = d
    /\ KindOf(k + 1) = -d /\ KindOf(k + 2) = d

\* The classification C13 gives the window whose second point is the k-th:
\* with L1..L4 the levels of points k-1..k+2.
WindowBos(k) ==
    IF WindowKinds(k, 1) /\ LevelAt(k - 1) < LevelAt(k + 1)
         /\ LevelAt(k + 1) < LevelAt(k) /\ LevelAt(k) < LevelAt(k + 2) THEN 1
    ELSE IF WindowKinds(k, -1) /\ LevelAt(k - 1) > LevelAt(k + 1)
         /\ LevelAt(k + 1) > LevelAt(k) /\ LevelAt(k) > LevelAt(k + 2) THEN -1
    ELSE 0
WindowChoch(k) ==
    IF WindowKinds(k, 1) /\ LevelAt(k + 2) > LevelAt(k)
         /\ LevelAt(k) > LevelAt(k - 1) /\ LevelAt(k - 1) > LevelAt(k + 1) THEN 1
    ELSE IF WindowKinds(k, -1) /\ LevelAt(k + 2) < LevelAt(k)
         /\ LevelAt(k) < LevelAt(k - 1) /\ LevelAt(k - 1) < LevelAt(k + 1) THEN -1
    ELSE 0

\* C13: after the scan and before the break confirmation, the row of the
\* second point p2 of every four consecutive swing points carries the BOS and
\* CHOCH value of that window and, when it has one, Level = L2; every other
\* row carries none.
C13_ClassifiedAtSecondPointOfWindow ==
    pc = "bos_remove" =>
        /\ \A k \in 1 .. (NumSwings - 3) :
              /\ bos[SwingRows[k]] = WindowBos(k)
              /\ choch[SwingRows[k]] = WindowChoch(k)
              /\ level[SwingRows[k]] =
                     IF WindowBos(k) # 0 \/ WindowChoch(k) # 0 THEN LevelAt(k) ELSE 0
        /\ \A r \in Rows :
              (\A k \in 1 .. (NumSwings - 3) : SwingRows[k] # r) =>
                  bos[r] = 0 /\ choch[r] = 0 /\ level[r] = 0

\* The scan has classified a row as a bearish BOS, from a window of four
\* swing points of which it is the second, and another window as nothing.
C13_Witness ==
    /\ pc = "bos_remove"
    /\ \E k \in 1 .. (NumSwings - 3) :
          bos[SwingRows[k]] = -1 /\ level[SwingRows[k]] = LevelAt(k)
    /\ \E k \in 1 .. (NumSwings - 3) :
          bos[SwingRows[k]] = 0 /\ choch[SwingRows[k]] = 0

-----------------------------------------------------------------------------
(* The conflict-resolution loop of swing_highs_lows *)

Candidates(arr) == { r \in Rows : ~IsNaN(arr[r]) }

\* The pairs of candidates of one kind with no candidate between them.
AdjacentSameKind(arr) ==
    { pq \in Candidates(arr) \X Candidates(arr) :
        /\ pq[1] < pq[2]
        /\ arr[pq[1]] = arr[pq[2]]
        /\ \A r \in Candidates(arr) : ~(pq[1] < r /\ r < pq[2]) }

\* The first such pair of the array.
FirstPair(arr) ==
    CHOOSE pq \in AdjacentSameKind(arr) :
        \A other \in AdjacentSameKind(arr) : pq[1] <= other[1]

\* Candidate r is no better a swing point of its kind than candidate q: a low
\* that is not lower, a high that is not higher.
NoBetter(arr, r, q) ==
    IF arr[r] = -1 THEN ohlc[r].low >= ohlc[q].low ELSE ohlc[r].high <= ohlc[q].high

\* Strictly worse: the higher low, the lower high.
Worse(arr, r, q) ==
    IF arr[r] = -1 THEN ohlc[r].low > ohlc[q].low ELSE ohlc[r].high < ohlc[q].high

\* What one pass of the loop does to the array it starts from.
PassEffect(before, after, cont) ==
    /\ Candidates(after) \subseteq Candidates(before)
    /\ \A r \in Candidates(after) : after[r] = before[r]
    /\ cont = (AdjacentSameKind(before) # {})
    /\ AdjacentSameKind(before) # {} =>
          /\ Cardinality(Candidates(after)) < Cardinality(Candidates(before))
          /\ LET pq == FirstPair(before)
             IN  IF Worse(before, pq[1], pq[2])
                 THEN pq[1] \notin Candidates(after)
                 ELSE pq[1] \in Candidates(after) /\ pq[2] \notin Candidates(after)
    /\ \A r \in Candidates(before) \ Candidates(after) :
          \E pq \in AdjacentSameKind(before) :
             \/ pq[1] = r /\ Worse(before, r, pq[2])
             \/ pq[2] = r /\ NoBetter(before, r, pq[1])

\* C14: the conflict-resolution loop terminates.  A pass that starts from an
\* array with two adjacent candidates of one kind removes at least one
\* candidate and asks for another pass; every candidate a pass removes is one
\* of such a pair, the one with the higher low or the lower high (the later of
\* the two when they are equal); no pass adds or changes a candidate; a pass
\* that starts from an alternating array removes nothing and ends the loop, and
\* the loop is only left with an alternating array.  Every call therefore
\* leaves the loop, returning or raising.
C14_ResolutionLoopTerminates ==
    /\ [][(pc = "swing_resolve" /\ continue_) =>
             PassEffect(swing_highs_lows.HighLow, swing_highs_lows'.HighLow, continue_')]_vars
    /\ [][(pc = "swing_resolve" /\ pc' # "swing_resolve") =>
             (~continue_ /\ AdjacentSameKind(swing_highs_lows.HighLow) = {})]_vars
    /\ <>(pc \in {"swing_done", "raised"})

\* The loop has ended after three passes, two of which removed a candidate.
C14_Witness ==
    /\ pc = "swing_resolve"
    /\ ~continue_
    /\ passes = 3
    /\ Cardinality(Candidates(WindowTest(swing_length * 2))) >=
          Cardinality(Candidates(swing_highs_lows.HighLow)) + 2

====
